---- MODULE Spec2Model ----
(***************************************************************************)
(* A model of imdb-poster-grabber (grabber.py): load_movie_metadata,       *)
(* download_posters, the end-of-run prompt and choose_keepers.  main.py is *)
(* an earlier copy of the same script: it has no '.gitkeep' test (the name *)
(* splits into two fields and is passed over anyway) and filters the lines *)
(* of the codes file inside the resolving loop, with the same results.     *)
(*                                                                         *)
(* Python strings are TLA+ strings; a character is a string of length 1.   *)
(* Two specifications:                                                     *)
(*   SpecLoad  load_movie_metadata over every small codes file;            *)
(*   Spec      the rest of the script: download_posters over a list of     *)
(*             MovieMetadata, the (Y/n) prompt, and choose_keepers.        *)
(***************************************************************************)
EXTENDS Naturals, Sequences, FiniteSets, TLC

VARIABLES
    pc,             \* position of the script
    file,           \* contents of CODES_FILE
    raw_lines,      \* load_movie_metadata: f.readlines()
    li,             \* load_movie_metadata: index of the line the filter loop is at
    codes,          \* load_movie_metadata: the identifiers
    ci,             \* load_movie_metadata: index of the identifier being resolved
    metadatas,      \* list of MovieMetadata
    resolved_from,  \* history: the html each element of metadatas was built from
    dir,            \* POSTERS_DIR: entry name -> content
    di,             \* download_posters: i, the index of the title being downloaded
    imgs,           \* download_posters: the surviving image URLs of the title
    counter,        \* download_posters: counter
    written,        \* history: one record per pil_image.save that succeeded
    failed,         \* history: <<>> or <<[i, dir, written]>> at the first download error
    choice,         \* the answer to the end-of-run prompt, <<answer>>, or None
    posters,        \* choose_keepers: entries of os.listdir not yet visited
    by_title,       \* choose_keepers: by_title.items(), in insertion order
    gi,             \* choose_keepers: index of the group being prompted for
    keeper_number,  \* choose_keepers: <<the last string read by input()>>, or None
    dir_at_select,  \* history: dir when choose_keepers was entered
    reduced         \* history: one record per group that was reduced

vars == <<pc, file, raw_lines, li, codes, ci, metadatas, resolved_from, dir, di,
          imgs, counter, written, failed, choice, posters, by_title, gi,
          keeper_number, dir_at_select, reduced>>

loadVars == <<file, raw_lines, li, codes, ci, metadatas, resolved_from>>
dlVars == <<dir, di, imgs, counter, written, failed>>
selVars == <<posters, by_title, gi, keeper_number, dir_at_select, reduced>>

----------------------------------------------------------------------------
(* Bounds *)

\* longest codes file, in characters
MaxFileLen == 4
\* longest list of MovieMetadata handed to download_posters
MaxTitles == 2

----------------------------------------------------------------------------
(* Program constants *)

ROOT_URL == "https://www.imdb.com/title/"
GITKEEP == ".gitkeep"
\* None: a variable that holds a str or None holds <<s>> or <<>>
None == <<>>

----------------------------------------------------------------------------
(* Python str operations *)

Char(s, i) == SubSeq(s, i, i)

\* s[i:] with a 1-based i
From(s, i) == SubSeq(s, i, Len(s))

\* s.startswith(p, i-1)
StartsAt(s, p, i) ==
    i >= 1 /\ i + Len(p) - 1 <= Len(s) /\ SubSeq(s, i, i + Len(p) - 1) = p

\* p in s
Contains(s, p) == \E i \in 1..(Len(s) + 1) : StartsAt(s, p, i)

\* the positions >= from at which p occurs in s
Occurrences(s, p, from) == {i \in from..Len(s) : StartsAt(s, p, i)}

Min(S) == CHOOSE x \in S : \A y \in S : x <= y

Max(S) == CHOOSE x \in S : \A y \in S : y <= x

\* the first position >= from at which p occurs in s with no newline between
\* from and it ('.' in a regular expression does not match '\n'), or 0
FindOnLine(s, p, from) ==
    LET hits == {i \in Occurrences(s, p, from) : ~Contains(SubSeq(s, from, i - 1), "\n")}
    IN  IF hits = {} THEN 0 ELSE Min(hits)

UpperChars == <<"A", "B", "C", "D", "E", "F", "G", "H", "I", "J", "K", "L", "M",
                "N", "O", "P", "Q", "R", "S", "T", "U", "V", "W", "X", "Y", "Z">>

LowerChars == <<"a", "b", "c", "d", "e", "f", "g", "h", "i", "j", "k", "l", "m",
                "n", "o", "p", "q", "r", "s", "t", "u", "v", "w", "x", "y", "z">>

DigitChars == <<"0", "1", "2", "3", "4", "5", "6", "7", "8", "9">>

Range(f) == {f[i] : i \in DOMAIN f}

\* c.isalnum()
IsAlnum(c) == c \in Range(UpperChars) \cup Range(LowerChars) \cup Range(DigitChars)

\* c.lower()
LowerChar(c) ==
    IF c \in Range(UpperChars)
    THEN LowerChars[CHOOSE i \in DOMAIN UpperChars : UpperChars[i] = c]
    ELSE c

RECURSIVE Lower(_)
\* s.lower()
Lower(s) == IF s = "" THEN "" ELSE LowerChar(Char(s, 1)) \o Lower(Tail(s))

RECURSIVE StrOfNat(_)
\* str(n), as f'{number}' formats it
StrOfNat(n) ==
    IF n < 10 THEN DigitChars[n + 1] ELSE StrOfNat(n \div 10) \o DigitChars[(n % 10) + 1]

RECURSIVE Split(_, _)
\* s.split(sep) for a one-character sep
Split(s, sep) ==
    LET hits == Occurrences(s, sep, 1)
    IN  IF hits = {} THEN <<s>>
        ELSE <<SubSeq(s, 1, Min(hits) - 1)>> \o Split(From(s, Min(hits) + 1), sep)

----------------------------------------------------------------------------
(* load_movie_metadata *)

RECURSIVE ReadLines(_)
\* f.readlines(): each line keeps its terminator; the last may have none
ReadLines(s) ==
    LET hits == Occurrences(s, "\n", 1)
    IN  IF s = "" THEN <<>>
        ELSE IF hits = {} THEN <<s>>
        ELSE <<SubSeq(s, 1, Min(hits))>> \o ReadLines(From(s, Min(hits) + 1))

\* code[0] == '#'
IsComment(code) == Char(code, 1) = "#"

\* the variant that leaves the terminator on
StripNewlineNever(code) == code

\* if code[-1] == '\n': code = code[:-1]
StripNewline(code) ==
    IF Char(code, Len(code)) = "\n" THEN SubSeq(code, 1, Len(code) - 1) ELSE code

\* url = f'{ROOT_URL}{code}/'
DetailUrl(code) == ROOT_URL \o code \o "/"

\* re.findall(open .*? close, html): the matches, as <<start, end>> pairs of the
\* first one; <<>> when there is none.  The match starts at the first open
\* that has a close after it on the same line and ends with the nearest close.
FirstLazy(html, open, close) ==
    LET starts == {i \in Occurrences(html, open, 1) :
                      FindOnLine(html, close, i + Len(open)) # 0}
    IN  IF starts = {} THEN <<>>
        ELSE LET i == Min(starts)
                 j == FindOnLine(html, close, i + Len(open))
             IN  <<i, j + Len(close) - 1>>

\* re.findall(r'<title>.*?</title>', html)
HasTitleElement(html) == FirstLazy(html, "<title>", "</title>") # <<>>

\* re.findall(r'<title>.*?</title>', html)[0]
TitleElement(html) ==
    LET m == FirstLazy(html, "<title>", "</title>") IN SubSeq(html, m[1], m[2])

RECURSIVE StripTitleTags(_)
\* re.sub(r'<title/?>', '', title): removes every '<title>' and '<title/>'
StripTitleTags(s) ==
    IF s = "" THEN ""
    ELSE IF StartsAt(s, "<title>", 1) THEN StripTitleTags(From(s, 8))
    ELSE IF StartsAt(s, "<title/>", 1) THEN StripTitleTags(From(s, 9))
    ELSE Char(s, 1) \o StripTitleTags(Tail(s))

\* re.sub(r'(.*?) \(.*', r'\g<1>', title), for a title of one line: a match
\* starts at 0, the group ends before the first ' (' and the match runs to
\* the end of the line
CutParenthetical(s) ==
    LET hits == Occurrences(s, " (", 1)
    IN  IF hits = {} THEN s ELSE SubSeq(s, 1, Min(hits) - 1)

RECURSIVE Sanitize(_)
\* "".join(char for char in title if char.isalnum())
Sanitize(s) ==
    IF s = "" THEN ""
    ELSE (IF IsAlnum(Char(s, 1)) THEN Char(s, 1) ELSE "") \o Sanitize(Tail(s))

\* lines 187-190
DisplayTitle(html) == Sanitize(CutParenthetical(StripTitleTags(TitleElement(html))))

\* re.findall(r'mediaviewer/.*?"', html)
HasMediaLink(html) == FirstLazy(html, "mediaviewer/", "\"") # <<>>

\* re.findall(r'mediaviewer/.*?"', html)[0][:-1]
MediaFragment(html) ==
    LET m == FirstLazy(html, "mediaviewer/", "\"") IN SubSeq(html, m[1], m[2] - 1)

MovieMetadata(imdb_code, url, media_url, title) ==
    [imdb_code |-> imdb_code, url |-> url, media_url |-> media_url, title |-> title]

\* the characters of the codes files checked
FileChars == {"t", "#", "\n"}

RECURSIVE StringsUpTo(_, _)
\* every string of at most n characters of chars
StringsUpTo(chars, n) ==
    IF n = 0 THEN {""}
    ELSE LET shorter == StringsUpTo(chars, n - 1)
         IN  shorter \cup {s \o c : s \in shorter, c \in chars}

\* detail pages the catalog may answer with
PageBladeRunner ==
    "<head><title>Blade Runner (1982) - IMDb</title></head><a href=\"/title/tt1/mediaviewer/rm1\">"

PageDune == "<title>Dune</title>\n<a href=\"mediaviewer/rm2/\">"

PageNoTitle == "<h1>404</h1><a href=\"mediaviewer/rm3\">"

PageNoMedia == "<title>Mars (2020)</title><p>no gallery</p>"

Pages == {PageBladeRunner, PageDune, PageNoTitle, PageNoMedia}

InitCommon ==
    /\ raw_lines = <<>>
    /\ li = 1
    /\ codes = <<>>
    /\ ci = 1
    /\ resolved_from = <<>>
    /\ dir = [n \in {GITKEEP} |-> <<0, 0>>]
    /\ di = 1
    /\ imgs = <<>>
    /\ counter = 1
    /\ written = <<>>
    /\ failed = <<>>
    /\ choice = None
    /\ posters = {}
    /\ by_title = <<>>
    /\ gi = 1
    /\ keeper_number = None
    /\ dir_at_select = <<>>
    /\ reduced = <<>>

InitLoad ==
    /\ pc = "readlines"
    /\ file \in StringsUpTo(FileChars, MaxFileLen)
    /\ metadatas = <<>>
    /\ InitCommon

\* raw_lines = f.readlines()
ReadCodes ==
    /\ pc = "readlines"
    /\ raw_lines' = ReadLines(file)
    /\ pc' = "filter"
    /\ UNCHANGED <<file, li, codes, ci, metadatas, resolved_from, dlVars, choice, selVars>>

\* for code in raw_lines: one iteration on a comment line
SkipComment ==
    /\ pc = "filter"
    /\ li <= Len(raw_lines)
    /\ IsComment(raw_lines[li])
    /\ li' = li + 1
    /\ UNCHANGED <<pc, file, raw_lines, codes, ci, metadatas, resolved_from, dlVars,
                   choice, selVars>>

\* for code in raw_lines: one iteration on any other line
AppendCode ==
    /\ pc = "filter"
    /\ li <= Len(raw_lines)
    /\ ~IsComment(raw_lines[li])
    /\ codes' = Append(codes, StripNewline(raw_lines[li]))
    /\ li' = li + 1
    /\ UNCHANGED <<pc, file, raw_lines, ci, metadatas, resolved_from, dlVars, choice,
                   selVars>>

\* the filter loop ends; length = len(codes)
FilterDone ==
    /\ pc = "filter"
    /\ li > Len(raw_lines)
    /\ pc' = "resolve"
    /\ UNCHANGED <<loadVars, dlVars, choice, selVars>>

\* get_page_html raises: except Exception: ... continue
FetchFails ==
    /\ pc = "resolve"
    /\ ci <= Len(codes)
    /\ ci' = ci + 1
    /\ UNCHANGED <<pc, file, raw_lines, li, codes, metadatas, resolved_from, dlVars,
                   choice, selVars>>

\* lines 187-196 on a page that has both patterns
ResolveTitle ==
    /\ pc = "resolve"
    /\ ci <= Len(codes)
    /\ \E html \in Pages :
          /\ HasTitleElement(html)
          /\ HasMediaLink(html)
          /\ LET url == DetailUrl(codes[ci])
             IN  metadatas' = Append(metadatas,
                     MovieMetadata(codes[ci], url, url \o MediaFragment(html),
                                   DisplayTitle(html)))
          /\ resolved_from' = Append(resolved_from, html)
    /\ ci' = ci + 1
    /\ UNCHANGED <<pc, file, raw_lines, li, codes, dlVars, choice, selVars>>

\* re.findall(...)[0] on a page without the pattern: IndexError, which no
\* handler catches (the try of lines 181-185 covers get_page_html only)
ResolveRaises ==
    /\ pc = "resolve"
    /\ ci <= Len(codes)
    /\ \E html \in Pages : ~HasTitleElement(html) \/ ~HasMediaLink(html)
    /\ pc' = "raised"
    /\ UNCHANGED <<loadVars, dlVars, choice, selVars>>

\* return metadatas
LoadReturns ==
    /\ pc = "resolve"
    /\ ci > Len(codes)
    /\ pc' = "loaded"
    /\ UNCHANGED <<loadVars, dlVars, choice, selVars>>

NextLoad ==
    \/ ReadCodes
    \/ SkipComment
    \/ AppendCode
    \/ FilterDone
    \/ FetchFails
    \/ ResolveTitle
    \/ ResolveRaises
    \/ LoadReturns

SpecLoad == InitLoad /\ [][NextLoad]_vars

----------------------------------------------------------------------------
(* download_posters *)

RECURSIVE FindAllImgs(_)
\* re.findall('<img.*?/>', html)
FindAllImgs(html) ==
    LET m == FirstLazy(html, "<img", "/>")
    IN  IF m = <<>> THEN <<>>
        ELSE <<SubSeq(html, m[1], m[2])>> \o FindAllImgs(From(html, m[2] + 1))

\* '.jpg' in img or '.png' in img or '//fls-' not in img
Keep(img) == Contains(img, ".jpg") \/ Contains(img, ".png") \/ ~Contains(img, "//fls-")

Quotes == {"'", "\""}

\* re.sub(r'<img.*?src=[\'"](.*?)[\'"].*?/>', r'\g<1>', img) for an element of
\* FindAllImgs: it starts with '<img', is one line and has its only '/>' at
\* its end, so a match covers all of it and the result is group 1, the text
\* between the first src=<quote> and the next quote that the closing '/>'
\* follows; img itself when there is no match
SrcOf(img) ==
    LET opens == {i \in 5..Len(img) :
                     /\ StartsAt(img, "src=", i)
                     /\ Char(img, i + 4) \in Quotes
                     /\ \E q \in (i + 5)..(Len(img) - 2) : Char(img, q) \in Quotes}
    IN  IF ~StartsAt(img, "<img", 1) \/ opens = {} THEN img
        ELSE LET i == Min(opens)
                 q == Min({q \in (i + 5)..(Len(img) - 2) : Char(img, q) \in Quotes})
             IN  SubSeq(img, i + 5, q - 1)

\* lines 83-85: the comprehension over re.findall('<img.*?/>', html)
SurvivingUrls(html) ==
    LET tags == FindAllImgs(html)
        kept == SelectSeq(tags, Keep)
    IN  [k \in 1..Len(kept) |-> SrcOf(kept[k])]

\* re.sub(r'.*(\..*?)$', r'\g<1>', media_url), for a URL of one line: from the
\* last '.' on; the URL itself when it has no '.'
Extension(media_url) ==
    LET dots == Occurrences(media_url, ".", 1)
    IN  IF dots = {} THEN media_url ELSE From(media_url, Max(dots))

\* the variant that numbers a single image too
NumberAlways(count, n) == <<count>>

\* counter if len(imgs) > 1 else None
Number(count, n) == IF n > 1 THEN <<count>> ELSE None

\* make_poster_filepath: full_filename, the entry os.path.join puts in POSTERS_DIR
FullFilename(filename, extension, number) ==
    filename \o (IF number = None THEN "" ELSE "." \o StrOfNat(number[1])) \o extension

\* the formats PIL writes, by extension
RegisteredExtensions == {".jpg", ".jpeg", ".png", ".gif", ".bmp", ".webp"}

\* pil_image.save(filepath) can write: the entry is directly in POSTERS_DIR
\* (no directory is created) and PIL knows the format of its extension,
\* os.path.splitext(filepath)[1].lower(); it raises otherwise
SaveAccepts(full_filename) ==
    /\ ~Contains(full_filename, "/")
    /\ Contains(full_filename, ".")
    /\ Lower(Extension(full_filename)) \in RegisteredExtensions

\* the skip-and-continue variant: the error is caught and the next title
\* is downloaded
AfterDownloadErrorSkips(i) == [pc |-> "download", di |-> i + 1]

\* an exception of download_posters is handled nowhere: it leaves the loops,
\* download_posters and the script
AfterDownloadError(i) == [pc |-> "raised", di |-> i]

\* os.listdir-independent view of the directory with one entry written
WithEntry(d, name, content) ==
    [n \in DOMAIN d \cup {name} |-> IF n = name THEN content ELSE d[n]]

WithoutEntries(d, names) == [n \in DOMAIN d \ names |-> d[n]]

\* img elements and gallery pages the catalog may answer with
ImgJpgA == "<img src=\"//m.x/a.jpg\"/>"

ImgJpgB == "<img width=\"9\" src=\"//m.x/b.jpg\" alt=\"\"/>"

ImgPng == "<img class=\"p\" src='//m.x/c.png'/>"

ImgPixel == "<img src=\"//fls-na.x/px\"/>"

ImgPixelAlt == "<img alt=\"a.jpg\" src=\"//fls-na.x/px\"/>"

ImgLogo == "<img src=\"/logo\"/>"

Galleries ==
    { ImgJpgA \o ImgPixel \o "\n" \o ImgPng,
      "<div>" \o ImgPng \o "</div>",
      ImgJpgA \o ImgJpgB \o ImgPng,
      ImgJpgB \o ImgPixelAlt,
      ImgLogo,
      "<p>no images</p>" }

MovieDune ==
    MovieMetadata("tt0087182", DetailUrl("tt0087182"),
                  DetailUrl("tt0087182") \o "mediaviewer/rm1", "Dune")

MovieMars ==
    MovieMetadata("tt0116996", DetailUrl("tt0116996"),
                  DetailUrl("tt0116996") \o "mediaviewer/rm2", "Mars")

Movies == {MovieDune, MovieMars}

\* the lists load_movie_metadata hands over: a codes file may name a movie twice
MetadataLists == UNION {[1..n -> Movies] : n \in 0..MaxTitles}

\* what the operator may type at the (Y/n) prompt
Answers == {"n", "N", "no", "No", "y", ""}

\* what the operator may type at a poster prompt
KeeperInputs == {"1", "2", "3", "01", "x"}

Init ==
    /\ pc = "download"
    /\ file = ""
    /\ metadatas \in MetadataLists
    /\ InitCommon

\* for metadata in metadatas: lines 74-87, the gallery page fetched
FetchGallery ==
    /\ pc = "download"
    /\ di <= Len(metadatas)
    /\ \E html \in Galleries : imgs' = SurvivingUrls(html)
    /\ counter' = 1
    /\ pc' = "images"
    /\ UNCHANGED <<loadVars, dir, di, written, failed, choice, selVars>>

\* for media_url in imgs: lines 89-100, the image fetched, thumbnailed and saved
SaveImage ==
    /\ pc = "images"
    /\ counter <= Len(imgs)
    /\ LET media_url == imgs[counter]
           title == metadatas[di].title
           name == FullFilename(title, Extension(media_url), Number(counter, Len(imgs)))
           pos == Cardinality({w \in DOMAIN written : written[w].i = di}) + 1
       IN  /\ SaveAccepts(name)
           /\ dir' = WithEntry(dir, name, <<di, counter>>)
           /\ written' = Append(written,
                  [i |-> di, title |-> title, pos |-> pos, n |-> Len(imgs),
                   url |-> media_url, name |-> name])
    /\ counter' = counter + 1
    /\ UNCHANGED <<pc, loadVars, di, imgs, failed, choice, selVars>>

\* the inner loop ends: the next metadata
ImagesDone ==
    /\ pc = "images"
    /\ counter > Len(imgs)
    /\ di' = di + 1
    /\ pc' = "download"
    /\ UNCHANGED <<loadVars, dir, imgs, counter, written, failed, choice, selVars>>

\* urlopen, read, decode, Image.open, thumbnail or save raises (lines 81, 96-98)
DownloadRaises ==
    /\ \/ pc = "download" /\ di <= Len(metadatas)
       \/ pc = "images" /\ counter <= Len(imgs)
    /\ failed' = IF failed = <<>>
                 THEN <<[i |-> di, dir |-> dir, written |-> Len(written)]>>
                 ELSE failed
    /\ pc' = AfterDownloadError(di).pc
    /\ di' = AfterDownloadError(di).di
    /\ UNCHANGED <<loadVars, dir, imgs, counter, written, choice, selVars>>

\* download_posters returns
DownloadReturns ==
    /\ pc = "download"
    /\ di > Len(metadatas)
    /\ pc' = "ask"
    /\ UNCHANGED <<loadVars, dlVars, choice, selVars>>

----------------------------------------------------------------------------
(* __main__: the end-of-run prompt *)

\* the variant without lower(): choice != 'n'
RunsSelectorCaseSensitive(answer) == answer # "n"

\* choice.lower() != 'n'
RunsSelector(answer) == Lower(answer) # "n"

\* choice = input(...); if choice.lower() != 'n': choose_keepers()
AskChoice ==
    /\ pc = "ask"
    /\ \E answer \in Answers :
          /\ choice' = <<answer>>
          /\ pc' = IF RunsSelector(answer) THEN "listdir" ELSE "exit"
    /\ UNCHANGED <<loadVars, dlVars, selVars>>

----------------------------------------------------------------------------
(* choose_keepers *)

\* by_title[title][key] = poster, by_title being the items in insertion order
Put(items, title, key, poster) ==
    IF \E g \in DOMAIN items : items[g].title = title
    THEN [g \in DOMAIN items |->
            IF items[g].title = title
            THEN [title |-> title, files |-> WithEntry(items[g].files, key, poster)]
            ELSE items[g]]
    ELSE Append(items, [title |-> title, files |-> [k \in {key} |-> poster]])

\* lines 112-120: the entries the grouping loop passes over
Ignored(poster) == poster = GITKEEP \/ Len(Split(poster, ".")) # 3

\* int(a) == int(b) for strings of digits
SameNumber(a, b) ==
    LET digits(s) == s # "" /\ \A i \in 1..Len(s) : Char(s, i) \in Range(DigitChars)
        RECURSIVE stripZeros(_)
        stripZeros(s) == IF Len(s) > 1 /\ Char(s, 1) = "0" THEN stripZeros(Tail(s)) ELSE s
    IN  digits(a) /\ digits(b) /\ stripZeros(a) = stripZeros(b)

\* the variant that compares numbers: int(keeper_number) == int(key)
IsKeyNumeric(input, files) == \E k \in DOMAIN files : SameNumber(input, k)

\* keeper_number in files
IsKey(input, files) == input \in DOMAIN files

\* lines 145-146
NewName(poster) == LET old_name_split == Split(poster, ".")
                   IN  old_name_split[1] \o "." \o old_name_split[3]

\* lines 141-143: the files os.remove is called on
Removed(files, keeper) == {files[k] : k \in DOMAIN files \ {keeper}}

\* posters = os.listdir(POSTERS_DIR)
ListDir ==
    /\ pc = "listdir"
    /\ posters' = DOMAIN dir
    /\ by_title' = <<>>
    /\ dir_at_select' = <<dir>>
    /\ pc' = "group"
    /\ UNCHANGED <<loadVars, dlVars, choice, gi, keeper_number, reduced>>

\* for poster in posters: one iteration; os.listdir gives the entries in
\* arbitrary order, so the next entry is any entry not visited yet
GroupEntry ==
    /\ pc = "group"
    /\ \E poster \in posters :
          /\ posters' = posters \ {poster}
          /\ by_title' = IF Ignored(poster) THEN by_title
                         ELSE LET split == Split(poster, ".")
                              IN  Put(by_title, split[1], split[2], poster)
    /\ UNCHANGED <<pc, loadVars, dlVars, choice, gi, keeper_number, dir_at_select,
                   reduced>>

\* the grouping loop ends: for movie in by_title.items()
GroupDone ==
    /\ pc = "group"
    /\ posters = {}
    /\ gi' = 1
    /\ pc' = IF by_title = <<>> THEN "exit" ELSE "prompt"
    /\ UNCHANGED <<loadVars, dlVars, choice, posters, by_title, keeper_number,
                   dir_at_select, reduced>>

\* keeper_number = input(...) is not in files: print, prompt again
PromptAgain ==
    /\ pc = "prompt"
    /\ \E input \in KeeperInputs :
          /\ ~IsKey(input, by_title[gi].files)
          /\ keeper_number' = <<input>>
    /\ UNCHANGED <<pc, loadVars, dlVars, choice, posters, by_title, gi, dir_at_select,
                   reduced>>

\* keeper_number = input(...) ends the prompt loop: lines 141-147, with
\* os.rename putting the keeper at its new name (replacing an entry of that
\* name, as POSIX does).  files[keeper_number] raises KeyError for a string
\* that is no key, after the loop of lines 141-143 has removed every file.
ChooseKeeper ==
    /\ pc = "prompt"
    /\ \E input \in KeeperInputs :
          LET files == by_title[gi].files
              after == WithoutEntries(dir, Removed(files, input))
          IN  /\ IsKey(input, files)
              /\ keeper_number' = <<input>>
              /\ IF input \in DOMAIN files
                 THEN /\ dir' = WithEntry(WithoutEntries(after, {files[input]}),
                                          NewName(files[input]), dir[files[input]])
                      /\ reduced' = Append(reduced,
                             [title |-> by_title[gi].title, files |-> files,
                              keeper |-> input])
                      /\ gi' = gi + 1
                      /\ pc' = IF gi = Len(by_title) THEN "exit" ELSE "prompt"
                 ELSE /\ dir' = after
                      /\ pc' = "raised"
                      /\ UNCHANGED <<gi, reduced>>
    /\ UNCHANGED <<loadVars, di, imgs, counter, written, failed, choice, posters,
                   by_title, dir_at_select>>

\* the same, where os.rename raises FileExistsError because an entry of the
\* new name exists (as Windows does): the others are removed already
RenameRaises ==
    /\ pc = "prompt"
    /\ \E input \in KeeperInputs :
          LET files == by_title[gi].files
          IN  /\ IsKey(input, files)
              /\ input \in DOMAIN files
              /\ NewName(files[input]) \in DOMAIN dir
              /\ keeper_number' = <<input>>
              /\ dir' = WithoutEntries(dir, Removed(files, input))
    /\ pc' = "raised"
    /\ UNCHANGED <<loadVars, di, imgs, counter, written, failed, choice, posters,
                   by_title, gi, dir_at_select, reduced>>

Next ==
    \/ FetchGallery
    \/ SaveImage
    \/ ImagesDone
    \/ DownloadRaises
    \/ DownloadReturns
    \/ AskChoice
    \/ ListDir
    \/ GroupEntry
    \/ GroupDone
    \/ PromptAgain
    \/ ChooseKeeper
    \/ RenameRaises

Spec == Init /\ [][Next]_vars

----------------------------------------------------------------------------
(* Properties *)

Last(seq) == seq[Len(seq)]

\* the entries of d whose name starts with the field title
EntriesOfTitle(d, title) == {n \in DOMAIN d : Split(n, ".")[1] = title}

\* C1: for every group choose_keepers has reduced, exactly one file of the
\* group's title is on disk, it is named title.ext with ext the extension of
\* the file that had the chosen key, and no title.number.ext file of that
\* title that was there when choose_keepers started exists any more.
C1_OneFilePerTitle ==
    \A g \in DOMAIN reduced :
        LET r == reduced[g]
            ext == Split(r.files[r.keeper], ".")[3]
        IN  /\ EntriesOfTitle(dir, r.title) = {r.title \o "." \o ext}
            /\ \A n \in EntriesOfTitle(dir_at_select[1], r.title) :
                   Len(Split(n, ".")) = 3 => n \notin DOMAIN dir

\* C2: while a group is prompted for, a step whose input is not exactly one
\* of the group's keys (as a string) keeps the group prompting and deletes
\* or renames nothing, and a step that ends the group's prompting, or changes
\* the directory, read one of its keys.
C2_PromptLoopEndsOnlyOnKey ==
    [][pc = "prompt" =>
          LET keys == DOMAIN by_title[gi].files
              read == keeper_number' # None /\ keeper_number'[1] \in keys
          IN  /\ ~read => pc' = "prompt" /\ gi' = gi /\ dir' = dir /\ reduced' = reduced
              /\ (pc' # "prompt" \/ gi' # gi \/ dir' # dir) => read
              /\ gi' # gi => gi' = gi + 1 /\ Last(reduced').keeper = keeper_number'[1]]_vars

\* the first group was reduced, and for the second an input that is a key's
\* number but not the key was read: the group is still prompted for
C2_Witness ==
    /\ pc = "prompt"
    /\ keeper_number = <<"01">>
    /\ "1" \in DOMAIN by_title[gi].files
    /\ gi = 2
    /\ dir # dir_at_select[1]

\* C3: load_movie_metadata never ends in an exception raised while an
\* identifier is resolved, and when it returns every identifier was visited.
C3_ResolutionFailureNeverAborts ==
    /\ pc # "raised"
    /\ pc = "loaded" => ci = Len(codes) + 1

SelectorSkipped == pc = "exit" /\ dir_at_select = <<>>

\* C4 as stated: once the prompt is answered, the Selector is skipped exactly
\* when the answer begins with 'n' or 'N'.
C4_SkippedIffBeginsWithN ==
    choice # None =>
        (SelectorSkipped <=> (choice[1] # "" /\ Char(choice[1], 1) \in {"n", "N"}))

\* C4 as amended: once the prompt is answered, the Selector is skipped exactly
\* when the answer is "n" or "N", and runs for every other answer.
C4_SkippedIffAnswerIsN ==
    choice # None => (SelectorSkipped <=> choice[1] \in {"n", "N"})

\* the answer was "no" and choose_keepers runs
C4_Witness == choice = <<"no">> /\ pc = "group"

\* C5: every image written for a title T with N surviving URLs went to
\* T.k.ext when N > 1, k being its 1-based place among the title's images,
\* and to T.ext when N = 1, ext being the last '.'-separated field of its URL;
\* the file is on disk until choose_keepers runs.
C5_Filenames ==
    \A w \in DOMAIN written :
        LET r == written[w]
            ext == Last(Split(r.url, "."))
        IN  /\ r.name = IF r.n > 1
                        THEN r.title \o "." \o StrOfNat(r.pos) \o "." \o ext
                        ELSE r.title \o "." \o ext
            /\ dir_at_select = <<>> => r.name \in DOMAIN dir

\* a title with three images and a title with one were written
C5_Witness ==
    /\ \E w \in DOMAIN written :
          written[w].n = 3 /\ written[w].pos = 3 /\ written[w].name = "Dune.3.png"
    /\ \E w \in DOMAIN written :
          written[w].n = 1 /\ written[w].name = "Mars.png"

\* C6: every display title is alphanumeric and is the alphanumeric characters
\* of the title element's content, cut at the first ' ('.
C6_DisplayTitle ==
    \A m \in DOMAIN metadatas :
        LET element == TitleElement(resolved_from[m])
            content == SubSeq(element, Len("<title>") + 1, Len(element) - Len("</title>"))
            title == metadatas[m].title
        IN  /\ \A i \in 1..Len(title) : IsAlnum(Char(title, i))
            /\ title = Sanitize(CutParenthetical(content))

NotComment(line) == ~StartsAt(line, "#", 1)

\* the lines of s without their terminators, the way str.splitlines cuts at '\n'
LinesOf(s) ==
    LET fields == Split(s, "\n")
    IN  IF Last(fields) = "" THEN SubSeq(fields, 1, Len(fields) - 1) ELSE fields

\* C7: once the codes are loaded, they are the lines of the file that do not
\* start with '#', in order and without terminator; none starts with '#' or
\* ends with a newline; a file with no such line gives no code and no failure.
C7_Identifiers ==
    pc \in {"resolve", "loaded", "raised"} =>
        /\ codes = SelectSeq(LinesOf(file), NotComment)
        /\ \A c \in DOMAIN codes :
               ~StartsAt(codes[c], "#", 1) /\ ~StartsAt(codes[c], "\n", Len(codes[c]))
        /\ codes = <<>> => pc # "raised"

\* a file with a comment, a code and terminators was loaded
C7_Witness == pc = "resolve" /\ file = "#\nt\n" /\ codes = <<"t">>

\* C8: applying the keep condition to the surviving image URLs of a title
\* removes none of them.
C8_FilterIdempotent == pc = "images" => SelectSeq(imgs, Keep) = imgs

\* C9: after a download error at title i nothing runs any more: the script
\* has ended in the exception, no later title was started, nothing was
\* written or removed since, and neither the prompt nor the Selector occurred.
C9_DownloadFailureAborts ==
    failed # <<>> =>
        /\ pc = "raised"
        /\ di = failed[1].i
        /\ dir = failed[1].dir
        /\ Len(written) = failed[1].written
        /\ choice = None
        /\ dir_at_select = <<>>

\* an image of the first title was written, a later download of that title
\* failed, and a second title was still to come
C9_Witness ==
    /\ failed # <<>>
    /\ failed[1].i = 1
    /\ Len(metadatas) = 2
    /\ Len(written) >= 1

\* C10: choose_keepers leaves every entry whose name is not three fields as
\* it found it, puts none in a group, and does not end in an exception.
C10_IgnoredUntouched ==
    dir_at_select # <<>> =>
        /\ \A n \in DOMAIN dir_at_select[1] :
               Len(Split(n, ".")) # 3 => n \in DOMAIN dir /\ dir[n] = dir_at_select[1][n]
        /\ \A g \in DOMAIN by_title : \A k \in DOMAIN by_title[g].files :
               Len(Split(by_title[g].files[k], ".")) = 3
        /\ pc # "raised"

====
